---- MODULE Spec2Model ----
(***************************************************************************)
(* The LUT finder of the SAT solver (sat/sat_lut_finder.cpp): one pass of  *)
(* lut_finder::operator() over a clause database, with the combination     *)
(* word, the clause-filter index, the watch-list scans and the truth-table *)
(* extraction.  64-bit and 32-bit words are sets of bit positions: bit p   *)
(* of the word is set iff p is in the set.                                 *)
(***************************************************************************)
EXTENDS Integers, Sequences, FiniteSets, TLC

VARIABLES
    cls,                  \* the clause objects: literals and the flags learned, removed, used
    clauses,              \* the clause vector handed to operator(): clause ids in order
    bins,                 \* the binary clauses held in the watch lists
    m_max_lut_size,       \* configuration: the maximum LUT size
    m_clause_filters,     \* per variable: the (filter, clause) records
    m_removed_clauses,    \* clauses of the attempts that reported a LUT
    max_size,             \* the size operator() currently targets
    ci,                   \* position of operator()'s scan in the clause vector
    pc,                   \* "idle", "outer", "match", "done"
    seed,                 \* the clause check_lut runs on (0: none yet)
    filter,               \* check_lut's filter of the seed
    m_vars,               \* the candidate's variables, in seed order
    m_var_position,       \* variable -> bit position
    visited,              \* the solver's visited marks
    m_combination,        \* the combination word
    m_num_combinations,   \* the number of witnessed rows
    m_clauses_to_remove,  \* clauses gathered by the current attempt
    m_missing,            \* positions the last extension did not mention
    cursor,               \* check_lut's place: <<literal, source, entry>> or <<>> at the end
    m_on_lut,             \* the invocations of the LUT callback, in order
    accepted,             \* the constraints that fed rows to the current attempt
    attempts,             \* one record per finished seed attempt
    probe,                \* input of a single function application
    answer                \* its result

vars == << cls, clauses, bins, m_max_lut_size, m_clause_filters,
           m_removed_clauses, max_size, ci, pc, seed, filter, m_vars,
           m_var_position, visited, m_combination, m_num_combinations,
           m_clauses_to_remove, m_missing, cursor, m_on_lut, accepted,
           attempts, probe, answer >>

passVars == << cls, clauses, bins, m_max_lut_size, m_clause_filters,
               m_removed_clauses, max_size, ci, pc, seed, filter, m_vars,
               m_var_position, visited, m_combination, m_num_combinations,
               m_clauses_to_remove, m_missing, cursor, m_on_lut, accepted,
               attempts >>

-----------------------------------------------------------------------------
(* Bounds of the model *)

\* constraints (clauses, binary clauses, a flagged clause counting twice) of a
\* database over the three variables of NarrowScope
MaxConstraints == 3
\* the same for a database whose first clause is over WideScope
MaxWideConstraints == 2
\* candidate size of the probes of lut_is_defined
MaxProbeSize == 3

(* Variable sequences of the clauses of the database.  Variable 32 shares   *)
(* its filter bit with variable 0.                                          *)
NarrowScope == << 2, 0, 1 >>
WideScope == << 1, 32, 0, 2 >>
Vars == {0, 1, 2, 32}

-----------------------------------------------------------------------------
(* Words *)

Pow2(n) == 2 ^ n

Bit(n, i) == (n \div Pow2(i)) % 2

RECURSIVE ToNat(_)
ToNat(w) == IF w = {} THEN 0
            ELSE LET p == CHOOSE q \in w : TRUE IN Pow2(p) + ToNat(w \ {p})

Shl64(w, n) == { p + n : p \in { q \in w : q + n <= 63 } }

Shr64(w, n) == { p - n : p \in { q \in w : q >= n } }

LowBits(n) == 0 .. (n - 1)

-----------------------------------------------------------------------------
(* Literals *)

Lit(v, s) == [var |-> v, sign |-> s]

Index(l) == 2 * l.var + l.sign

Neg(l) == Lit(l.var, 1 - l.sign)

VarsOf(lits) == { lits[i].var : i \in 1 .. Len(lits) }

-----------------------------------------------------------------------------
(* The bit masks: init_mask *)

\* a loop that stops before the word is filled
RECURSIVE InitMaskLoopShort(_, _)
InitMaskLoopShort(m, w) ==
    IF w < 32 THEN InitMaskLoopShort(m \cup Shl64(m, w), w * 2) ELSE m

RECURSIVE InitMaskLoop(_, _)
InitMaskLoop(m, w) ==
    IF w < 64 THEN InitMaskLoop(m \cup Shl64(m, w), w * 2) ELSE m

init_mask(i) ==
    IF i = 6 THEN LowBits(64)
    ELSE InitMaskLoop(LowBits(Pow2(i)), Pow2(i + 1))

-----------------------------------------------------------------------------
\* operator(): for (unsigned i = 0; i <= 6; ++i) init_mask(i)
m_masks == [i \in 0 .. 6 |-> init_mask(i)]

-----------------------------------------------------------------------------
(* The clause filter: get_clause_filter and the test of check_lut *)

\* a filter over the literals instead of the variables
get_clause_filter_signed(lits) == { Index(lits[i]) % 32 : i \in 1 .. Len(lits) }

get_clause_filter(lits) == { lits[i].var % 32 : i \in 1 .. Len(lits) }

FilterAdmits(f, cf) == f = (f \cup cf)

all_distinct(lits) == Cardinality(VarsOf(lits)) = Len(lits)

-----------------------------------------------------------------------------
(* The combination word.  An accumulator is [comb, num]. *)

set_combination(st, mask) ==
    IF mask \notin st.comb
    THEN [comb |-> st.comb \cup {mask}, num |-> st.num + 1]
    ELSE st

lut_is_defined_at(comb, masks, i, sz) ==
    LET c == comb \cup Shr64(comb, Pow2(i))
        m == IF sz < 6 THEN masks[i] \cap LowBits(sz) ELSE masks[i]
    IN  (c \cap m) = m

lut_is_defined(st, masks, sz) ==
    IF st.num < Pow2(sz \div 2) THEN FALSE
    ELSE \E i \in 0 .. (sz - 1) : lut_is_defined_at(st.comb, masks, i, sz)

RECURSIVE UpdateLoop(_, _, _, _)
UpdateLoop(st, mask, missing, k) ==
    IF k < Pow2(Len(missing))
    THEN LET mask2 == mask \cup { missing[i + 1] :
                          i \in { j \in 0 .. (Len(missing) - 1) : Bit(k, j) = 1 } }
         IN  UpdateLoop(set_combination(st, ToNat(mask2)), mask, missing, k + 1)
    ELSE st

\* an enumeration that leaves out the first completion
update_combinations_skip(st, mask, missing) == UpdateLoop(st, mask, missing, 1)

update_combinations(st, mask, missing) == UpdateLoop(st, mask, missing, 0)

-----------------------------------------------------------------------------
(* The row mask and the missing positions of an extension *)

Positions(n) == [i \in 1 .. n |-> i - 1]

SeedMask(lits) == { i \in 0 .. (Len(lits) - 1) : lits[i + 1].sign = 1 }

\* extract_lut(literal, literal): [mask, missing]
ExtractBinary(vs, l1, l2) ==
    [ mask    |-> { i \in 0 .. (Len(vs) - 1) :
                      IF vs[i + 1] = l1.var THEN l1.sign = 1
                      ELSE IF vs[i + 1] = l2.var THEN l2.sign = 1
                      ELSE FALSE },
      missing |-> SelectSeq(Positions(Len(vs)),
                      LAMBDA i : vs[i + 1] # l1.var /\ vs[i + 1] # l2.var) ]

\* extract_lut(clause&), after the visited test: [mask, missing]
ExtractClause(vs, pos, lits) ==
    LET filled == { pos[lits[i].var] : i \in 1 .. Len(lits) }
    IN  [ mask    |-> { pos[lits[i].var] : i \in { j \in 1 .. Len(lits) : lits[j].sign = 1 } },
          missing |-> SelectSeq(Positions(Len(vs)), LAMBDA j : j \notin filled) ]

-----------------------------------------------------------------------------
(* The truth-table extraction: convert_combination *)

RECURSIVE FirstDefined(_, _, _, _)
FirstDefined(comb, masks, i, n) ==
    IF i < n /\ ~ lut_is_defined_at(comb, masks, i, n)
    THEN FirstDefined(comb, masks, i + 1, n)
    ELSE i

\* vector::erase(elem): the first occurrence of the element is removed
Erase(s, v) ==
    LET at == CHOOSE i \in 1 .. Len(s) : s[i] = v /\ \A j \in 1 .. (i - 1) : s[j] # v
    IN  [j \in 1 .. (Len(s) - 1) |-> IF j < at THEN s[j] ELSE s[j + 1]]

FoldPosition0(comb, n) == { j \in 0 .. (Pow2(n) - 1) : (2 * j) \notin comb }

convert_combination(comb, masks, vs) ==
    LET i    == FirstDefined(comb, masks, 0, Len(vs))
        v    == vs[i + 1]
        rest == Erase(vs, v)
    IN  [ i    |-> i,
          v    |-> v,
          vars |-> rest,
          r    |-> IF i = 0 THEN FoldPosition0(comb, Len(rest)) ELSE {} ]

-----------------------------------------------------------------------------
(* The solver's side: watch lists, the filter index *)

\* get_wlist(l): the other literal w of every binary clause (~l \/ w)
get_wlist(bs, l) ==
    LET hits == SelectSeq(bs, LAMBDA b : Neg(b[1]) = l \/ Neg(b[2]) = l)
    IN  [i \in 1 .. Len(hits) |->
            IF Neg(hits[i][1]) = l THEN hits[i][2] ELSE hits[i][1]]

\* init_clause_filter(): s.m_clauses, then s.m_learned
init_clause_filter(cs, mls) ==
    LET ids     == [i \in 1 .. Len(cs) |-> i]
        order   == SelectSeq(ids, LAMBDA i : ~ cs[i].learned)
                     \o SelectSeq(ids, LAMBDA i : cs[i].learned)
        indexed == SelectSeq(order,
                     LAMBDA i : Len(cs[i].lits) <= mls /\ all_distinct(cs[i].lits))
    IN  [v \in Vars |->
            LET mine == SelectSeq(indexed, LAMBDA i : v \in VarsOf(cs[i].lits))
            IN  [k \in 1 .. Len(mine) |->
                    [m_filter |-> get_clause_filter(cs[mine[k]].lits),
                     m_clause |-> mine[k]]]]

-----------------------------------------------------------------------------
(* The databases the pass is run on *)

MkClause(scope, sg) == [i \in 1 .. Len(scope) |-> Lit(scope[i], sg[i])]

ScopeVars(scope) == { scope[i] : i \in 1 .. Len(scope) }

ClausesOver(scope) == { MkClause(scope, sg) : sg \in [1 .. Len(scope) -> {0, 1}] }

BinsOver(vs) ==
    { << Lit(a, sa), Lit(b, sb) >> :
        a \in vs, b \in vs, sa \in {0, 1}, sb \in {0, 1} }

BinClausesOver(vs) == { b \in BinsOver(vs) : b[1].var < b[2].var }

RECURSIVE SubsetsUpTo(_, _)
SubsetsUpTo(S, k) ==
    IF k <= 0 THEN { {} }
    ELSE LET R == SubsetsUpTo(S, k - 1) IN R \cup { r \cup {x} : r \in R, x \in S }

\* the watch lists hold the binary clauses in the order of their literal indices
BinKey(b) == 1000 * Index(b[1]) + Index(b[2])

RECURSIVE SortBins(_)
SortBins(S) ==
    IF S = {} THEN << >>
    ELSE LET m == CHOOSE b \in S : \A o \in S : BinKey(b) <= BinKey(o)
         IN  << m >> \o SortBins(S \ {m})

\* the first clause of the database may be learned or already removed
FlagKinds(room) == IF room >= 1 THEN {"plain", "learned", "removed"} ELSE {"plain"}

FlagCost(f) == IF f = "plain" THEN 0 ELSE 1

MkObject(lits, flag) ==
    [lits |-> lits, learned |-> (flag = "learned"),
     removed |-> (flag = "removed"), used |-> FALSE]

Database(cl, f, bn, mls) ==
    /\ cls = [i \in 1 .. Len(cl) |-> MkObject(cl[i], IF i = 1 THEN f ELSE "plain")]
    /\ clauses = [i \in 1 .. Len(cl) |-> i]
    /\ bins = SortBins(bn)
    /\ m_max_lut_size = mls

NarrowDatabase ==
    \E n \in 1 .. MaxConstraints :
      \E cl \in [1 .. n -> ClausesOver(NarrowScope)] :
        \E f \in FlagKinds(MaxConstraints - n) :
          \E bn \in SubsetsUpTo(BinClausesOver(ScopeVars(NarrowScope)),
                                MaxConstraints - n - FlagCost(f)) :
            Database(cl, f, bn, Len(NarrowScope))

WideDatabase ==
    \E n \in 1 .. MaxWideConstraints :
      \E cl \in [1 .. n -> ClausesOver(NarrowScope) \cup ClausesOver(WideScope)] :
        /\ cl[1] \in ClausesOver(WideScope)
        /\ \E f \in FlagKinds(MaxWideConstraints - n) :
             \E bn \in SubsetsUpTo(BinClausesOver(ScopeVars(WideScope)),
                                   MaxWideConstraints - n - FlagCost(f)) :
               \E mls \in Len(NarrowScope) .. Len(WideScope) :
                 Database(cl, f, bn, mls)

NoProbe == [fn |-> "none"]

PassIdle ==
    /\ m_clause_filters = [v \in Vars |-> << >>]
    /\ m_removed_clauses = << >>
    /\ max_size = 0
    /\ ci = 0
    /\ pc = "idle"
    /\ seed = 0
    /\ filter = {}
    /\ m_vars = << >>
    /\ m_var_position = [v \in Vars |-> 0]
    /\ visited = {}
    /\ m_combination = {}
    /\ m_num_combinations = 0
    /\ m_clauses_to_remove = << >>
    /\ m_missing = << >>
    /\ cursor = << >>
    /\ m_on_lut = << >>
    /\ accepted = << >>
    /\ attempts = << >>

Init ==
    /\ NarrowDatabase \/ WideDatabase
    /\ PassIdle
    /\ probe = NoProbe
    /\ answer = NoProbe

-----------------------------------------------------------------------------
(* check_lut's place in its loops *)

SourceLen(lits, li, src) ==
    IF src = "idx" THEN Len(m_clause_filters[lits[li].var])
    ELSE IF src = "wpos" THEN Len(get_wlist(bins, lits[li]))
    ELSE Len(get_wlist(bins, Neg(lits[li])))

\* the next entry at or after <<li, src, k>> in the order the loops visit them
RECURSIVE Norm(_, _, _, _)
Norm(lits, li, src, k) ==
    IF li > Len(lits) THEN << >>
    ELSE IF k <= SourceLen(lits, li, src) THEN << li, src, k >>
    ELSE IF src = "idx" THEN Norm(lits, li, "wpos", 1)
    ELSE IF src = "wpos" THEN Norm(lits, li, "wneg", 1)
    ELSE Norm(lits, li + 1, "idx", 1)

\* a scan that takes a binary clause from both of its watch lists
BinaryOrderAny(w, l) == TRUE

\* the test on a binary watch: w.get_literal().index() < l.index()
BinaryOrder(w, l) == Index(w) < Index(l)

\* an extension that is never scheduled for removal
RemovableNever(lits, vs) == FALSE

\* extract_lut(clause&): c2.size() == m_vars.size()
Removable(lits, vs) == Len(lits) = Len(vs)

MarkUsed(cs, id) == [cs EXCEPT ![id].used = TRUE]

-----------------------------------------------------------------------------
(* operator(): the start of the pass *)

Begin ==
    /\ pc = "idle"
    /\ m_removed_clauses' = << >>
    /\ max_size' = m_max_lut_size
    /\ m_clause_filters' = init_clause_filter(cls, m_max_lut_size)
    /\ m_var_position' = [v \in Vars |-> m_var_position[v]]
    /\ cls' = [i \in DOMAIN cls |-> [cls[i] EXCEPT !.used = FALSE]]
    /\ ci' = 1
    /\ pc' = "outer"
    /\ UNCHANGED << clauses, bins, m_max_lut_size, seed, filter, m_vars, visited,
                    m_combination, m_num_combinations, m_clauses_to_remove,
                    m_missing, cursor, m_on_lut, accepted, attempts, probe, answer >>

Eligible(c) ==
    Len(c.lits) = max_size /\ ~ c.removed /\ ~ c.learned /\ ~ c.used

\* operator(): a clause the scan passes over
SkipClause ==
    /\ pc = "outer"
    /\ max_size > 2
    /\ ci <= Len(clauses)
    /\ ~ Eligible(cls[clauses[ci]])
    /\ ci' = ci + 1
    /\ UNCHANGED << cls, clauses, bins, m_max_lut_size, m_clause_filters,
                    m_removed_clauses, max_size, pc, seed, filter, m_vars,
                    m_var_position, visited, m_combination, m_num_combinations,
                    m_clauses_to_remove, m_missing, cursor, m_on_lut, accepted,
                    attempts, probe, answer >>

\* operator(): the scan of one size is over
NextSize ==
    /\ pc = "outer"
    /\ max_size > 2
    /\ ci > Len(clauses)
    /\ max_size' = max_size - 1
    /\ ci' = 1
    /\ UNCHANGED << cls, clauses, bins, m_max_lut_size, m_clause_filters,
                    m_removed_clauses, pc, seed, filter, m_vars,
                    m_var_position, visited, m_combination, m_num_combinations,
                    m_clauses_to_remove, m_missing, cursor, m_on_lut, accepted,
                    attempts, probe, answer >>

\* check_lut, up to the loop over the seed's literals
Seed ==
    /\ pc = "outer"
    /\ max_size > 2
    /\ ci <= Len(clauses)
    /\ Eligible(cls[clauses[ci]])
    /\ LET id   == clauses[ci]
           lits == cls[id].lits
           st   == set_combination([comb |-> {}, num |-> 0], ToNat(SeedMask(lits)))
       IN  /\ seed' = id
           /\ filter' = get_clause_filter(lits)
           /\ visited' = VarsOf(lits)
           /\ m_vars' = [i \in 1 .. Len(lits) |-> lits[i].var]
           /\ m_var_position' =
                [v \in Vars |->
                    IF v \in VarsOf(lits)
                    THEN (CHOOSE i \in 1 .. Len(lits) :
                             /\ lits[i].var = v
                             /\ \A j \in (i + 1) .. Len(lits) : lits[j].var # v) - 1
                    ELSE m_var_position[v]]
           /\ m_clauses_to_remove' = << id >>
           /\ m_combination' = st.comb
           /\ m_num_combinations' = st.num
           /\ cls' = MarkUsed(cls, id)
           /\ accepted' = << [kind |-> "seed", id |-> id, lits |-> lits] >>
    /\ cursor' = Norm(cls[clauses[ci]].lits, 1, "idx", 1)
    /\ pc' = "match"
    /\ UNCHANGED << clauses, bins, m_max_lut_size, m_clause_filters,
                    m_removed_clauses, max_size, ci, m_missing, m_on_lut,
                    attempts, probe, answer >>

\* update_combinations on an accepted extension, and add_lut when it defines the LUT
Extend(gathered, objs, ex, acc, next) ==
    LET st == update_combinations([comb |-> m_combination, num |-> m_num_combinations],
                                  ex.mask, ex.missing)
    IN  /\ m_missing' = ex.missing
        /\ m_combination' = st.comb
        /\ m_num_combinations' = st.num
        /\ m_clauses_to_remove' = gathered
        /\ cls' = objs
        /\ accepted' = acc
        /\ IF lut_is_defined(st, m_masks, Len(m_vars))
           THEN LET cv == convert_combination(st.comb, m_masks, m_vars)
                IN  /\ m_removed_clauses' = m_removed_clauses \o gathered
                    /\ m_vars' = cv.vars
                    /\ m_on_lut' = Append(m_on_lut,
                          [lut |-> cv.r, vars |-> cv.vars, v |-> cv.v,
                           seed |-> seed, i |-> cv.i, comb |-> st.comb,
                           cand |-> m_vars, accepted |-> acc, flagged |-> gathered])
                    /\ attempts' = Append(attempts,
                          [seed |-> seed, outcome |-> "SUCCESS", gathered |-> gathered])
                    /\ cursor' = << >>
                    /\ ci' = ci + 1
                    /\ pc' = "outer"
           ELSE /\ cursor' = next
                /\ UNCHANGED << m_removed_clauses, m_vars, m_on_lut, attempts, ci, pc >>

\* check_lut: one record of m_clause_filters[l.var()]
TryIndexed ==
    /\ pc = "match"
    /\ cursor # << >>
    /\ cursor[2] = "idx"
    /\ LET lits == cls[seed].lits
           li   == cursor[1]
           k    == cursor[3]
           cf   == m_clause_filters[lits[li].var][k]
           c2   == cls[cf.m_clause]
           next == Norm(lits, li, "idx", k + 1)
       IN  IF /\ FilterAdmits(filter, cf.m_filter)
              /\ ~ c2.used
              /\ VarsOf(c2.lits) \subseteq visited
           THEN LET full == Removable(c2.lits, m_vars)
                IN  Extend(IF full THEN Append(m_clauses_to_remove, cf.m_clause)
                                   ELSE m_clauses_to_remove,
                           IF full THEN MarkUsed(cls, cf.m_clause) ELSE cls,
                           ExtractClause(m_vars, m_var_position, c2.lits),
                           Append(accepted, [kind |-> "clause", id |-> cf.m_clause,
                                             lits |-> c2.lits]),
                           next)
           ELSE /\ cursor' = next
                /\ UNCHANGED << cls, m_removed_clauses, ci, pc, m_vars,
                                m_combination, m_num_combinations,
                                m_clauses_to_remove, m_missing, m_on_lut,
                                accepted, attempts >>
    /\ UNCHANGED << clauses, bins, m_max_lut_size, m_clause_filters,
                    max_size, seed, filter, m_var_position, visited, probe, answer >>

\* check_lut: one entry of the watch list of l ("wpos") or of ~l ("wneg")
TryBinary ==
    /\ pc = "match"
    /\ cursor # << >>
    /\ cursor[2] # "idx"
    /\ LET lits == cls[seed].lits
           li   == cursor[1]
           k    == cursor[3]
           l    == IF cursor[2] = "wpos" THEN lits[li] ELSE Neg(lits[li])
           w    == get_wlist(bins, l)[k]
           next == Norm(lits, li, cursor[2], k + 1)
       IN  IF w.var \in visited /\ BinaryOrder(w, l)
           THEN Extend(m_clauses_to_remove, cls,
                       ExtractBinary(m_vars, Neg(l), w),
                       Append(accepted, [kind |-> "binary", id |-> 0,
                                         lits |-> << Neg(l), w >>]),
                       next)
           ELSE /\ cursor' = next
                /\ UNCHANGED << cls, m_removed_clauses, ci, pc, m_vars,
                                m_combination, m_num_combinations,
                                m_clauses_to_remove, m_missing, m_on_lut,
                                accepted, attempts >>
    /\ UNCHANGED << clauses, bins, m_max_lut_size, m_clause_filters,
                    max_size, seed, filter, m_var_position, visited, probe, answer >>

\* check_lut returns without a LUT
Exhausted ==
    /\ pc = "match"
    /\ cursor = << >>
    /\ attempts' = Append(attempts,
          [seed |-> seed, outcome |-> "EXHAUSTED", gathered |-> m_clauses_to_remove])
    /\ ci' = ci + 1
    /\ pc' = "outer"
    /\ UNCHANGED << cls, clauses, bins, m_max_lut_size, m_clause_filters,
                    m_removed_clauses, max_size, seed, filter, m_vars,
                    m_var_position, visited, m_combination, m_num_combinations,
                    m_clauses_to_remove, m_missing, cursor, m_on_lut, accepted,
                    probe, answer >>

\* an end of the pass that keeps the used marks of the failed attempts
FinishKeepsMarks ==
    /\ pc = "outer"
    /\ max_size <= 2
    /\ m_clause_filters' = [v \in Vars |-> << >>]
    /\ LET removed == { m_removed_clauses[i] : i \in 1 .. Len(m_removed_clauses) }
           objs    == [i \in DOMAIN cls |-> [cls[i] EXCEPT !.used = (cls[i].used \/ i \in removed)]]
       IN  /\ cls' = objs
           /\ clauses' = SelectSeq(clauses, LAMBDA id : ~ objs[id].used)
    /\ pc' = "done"
    /\ UNCHANGED << bins, m_max_lut_size, m_removed_clauses, max_size, ci,
                    seed, filter, m_vars, m_var_position, visited, m_combination,
                    m_num_combinations, m_clauses_to_remove, m_missing, cursor,
                    m_on_lut, accepted, attempts, probe, answer >>

\* operator(): the end of the pass
Finish ==
    /\ pc = "outer"
    /\ max_size <= 2
    /\ m_clause_filters' = [v \in Vars |-> << >>]
    /\ LET removed == { m_removed_clauses[i] : i \in 1 .. Len(m_removed_clauses) }
           objs    == [i \in DOMAIN cls |-> [cls[i] EXCEPT !.used = (i \in removed)]]
       IN  /\ cls' = objs
           /\ clauses' = SelectSeq(clauses, LAMBDA id : ~ objs[id].used)
    /\ pc' = "done"
    /\ UNCHANGED << bins, m_max_lut_size, m_removed_clauses, max_size, ci,
                    seed, filter, m_vars, m_var_position, visited, m_combination,
                    m_num_combinations, m_clauses_to_remove, m_missing, cursor,
                    m_on_lut, accepted, attempts, probe, answer >>

Next ==
    \/ Begin
    \/ SkipClause
    \/ NextSize
    \/ Seed
    \/ TryIndexed
    \/ TryBinary
    \/ Exhausted
    \/ Finish

Spec == Init /\ [][Next]_vars

-----------------------------------------------------------------------------
(* Single applications of the pure functions, on inputs drawn from bounded  *)
(* sets: init_mask, lut_is_defined(i, sz), and get_clause_filter with the   *)
(* filter test of check_lut.                                                *)

FilterVarSets == { {0, 1, 32}, {0, 1}, {1, 32}, {0, 33}, {32}, {1}, {0, 1, 33} }

RECURSIVE SortVars(_)
SortVars(S) ==
    IF S = {} THEN << >>
    ELSE LET m == CHOOSE v \in S : \A o \in S : v <= o
         IN  << m >> \o SortVars(S \ {m})

FilterClauses == UNION { ClausesOver(SortVars(S)) : S \in FilterVarSets }

ProbeInitMask ==
    \E i \in 0 .. 6 : probe = [fn |-> "init_mask", i |-> i]

ProbeLutIsDefined ==
    \E sz \in 3 .. MaxProbeSize :
      \E i \in 0 .. (sz - 1) :
        \E w \in SUBSET LowBits(Pow2(sz)) :
          probe = [fn |-> "lut_is_defined", comb |-> w, i |-> i, sz |-> sz]

ProbeFilter ==
    \E a \in FilterClauses, b \in FilterClauses :
      probe = [fn |-> "get_clause_filter", a |-> a, b |-> b]

InitFn ==
    /\ Database(<< MkClause(NarrowScope, [i \in 1 .. Len(NarrowScope) |-> 0]) >>,
                "plain", {}, Len(NarrowScope))
    /\ PassIdle
    /\ ProbeInitMask \/ ProbeLutIsDefined \/ ProbeFilter
    /\ answer = NoProbe

ApplyInitMask ==
    /\ answer = NoProbe
    /\ probe.fn = "init_mask"
    /\ answer' = [fn |-> "init_mask", m |-> init_mask(probe.i)]
    /\ UNCHANGED << passVars, probe >>

ApplyLutIsDefined ==
    /\ answer = NoProbe
    /\ probe.fn = "lut_is_defined"
    /\ answer' = [fn |-> "lut_is_defined",
                  r |-> lut_is_defined_at(probe.comb, m_masks, probe.i, probe.sz)]
    /\ UNCHANGED << passVars, probe >>

\* check_lut's filter of the seed a against the indexed record of the clause b
ApplyFilter ==
    /\ answer = NoProbe
    /\ probe.fn = "get_clause_filter"
    /\ answer' = [fn |-> "get_clause_filter",
                  fa |-> get_clause_filter(probe.a),
                  fb |-> get_clause_filter(probe.b),
                  admits |-> FilterAdmits(get_clause_filter(probe.a),
                                          get_clause_filter(probe.b))]
    /\ UNCHANGED << passVars, probe >>

NextFn ==
    \/ ApplyInitMask
    \/ ApplyLutIsDefined
    \/ ApplyFilter

SpecFn == InitFn /\ [][NextFn]_vars

-----------------------------------------------------------------------------
(* Properties *)

Range(s) == { s[i] : i \in 1 .. Len(s) }

Last(s) == s[Len(s)]

PosIn(vs, v) == (CHOOSE j \in 1 .. Len(vs) : vs[j] = v) - 1

\* the rows (assignments of the candidate's variables, bit i for the variable
\* at position i) that falsify every literal of a constraint
RowsOf(lits, vs) ==
    { r \in 0 .. (Pow2(Len(vs)) - 1) :
        \A i \in 1 .. Len(lits) : Bit(r, PosIn(vs, lits[i].var)) = lits[i].sign }

RowsOfAll(acc, vs) == UNION { RowsOf(acc[a].lits, vs) : a \in 1 .. Len(acc) }

\* the row of k variables in which the variable at position i has the value b
\* and the other variables, in order, the assignment j
RowAt(j, i, b) == (j % Pow2(i)) + b * Pow2(i) + (j \div Pow2(i)) * Pow2(i + 1)

Deleted == (DOMAIN cls) \ Range(clauses)

-----------------------------------------------------------------------------
(* init_mask, lut_is_defined(i, sz), get_clause_filter: checked under SpecFn *)

MaskPattern(i) ==
    IF i = 6 THEN 0 .. 63 ELSE { p \in 0 .. 63 : (p \div Pow2(i)) % 2 = 0 }

BothRows(comb, i, sz) ==
    \A j \in 0 .. (Pow2(sz - 1) - 1) : RowAt(j, i, 0) \in comb /\ RowAt(j, i, 1) \in comb

SomeRow(comb, i, sz) ==
    \A j \in 0 .. (Pow2(sz - 1) - 1) : RowAt(j, i, 0) \in comb \/ RowAt(j, i, 1) \in comb

\* C2: lut_is_defined(i, sz) is true exactly when, for every assignment of the
\* other variables, both the row with variable i = 0 and the row with
\* variable i = 1 are set in the combination word.
C2_DefinedIffBothRows ==
    answer.fn = "lut_is_defined" =>
        (answer.r <=> BothRows(probe.comb, probe.i, probe.sz))

\* C6: if the variables of clause b are among those of clause a, then
\* filterOf(a) | filterOf(b) = filterOf(a), and the filter test of check_lut
\* admits b for the seed a.
C6_FilterMonotonic ==
    (answer.fn = "get_clause_filter" /\ VarsOf(probe.b) \subseteq VarsOf(probe.a)) =>
        /\ (answer.fa \cup answer.fb) = answer.fa
        /\ answer.admits

C6_Witness ==
    /\ answer.fn = "get_clause_filter"
    /\ VarsOf(probe.b) \subseteq VarsOf(probe.a)
    /\ VarsOf(probe.b) # VarsOf(probe.a)
    /\ 32 \in VarsOf(probe.b)
    /\ answer.admits

-----------------------------------------------------------------------------
(* The pass: checked under Spec *)

Reports == { m_on_lut[n] : n \in 1 .. Len(m_on_lut) }

Finished == { attempts[n] : n \in 1 .. Len(attempts) }

SeedVars(id) == [i \in 1 .. Len(cls[id].lits) |-> cls[id].lits[i].var]

\* the rows forbidden by all the clauses and binary clauses of the database,
\* in the bit order of the variable sequence vs
DatabaseRows(vs) ==
    UNION { RowsOf(cls[c].lits, vs) : c \in DOMAIN cls }
    \cup UNION { RowsOf(b, vs) : b \in Range(bins) }

\* the database is an encoding of a function of the variable at position 0 of
\* the clause id: every constraint is over the clause's variables and forbids
\* a row no other constraint forbids, and for each assignment j of the other
\* variables exactly one of the rows 2j (output 0) and 2j + 1 (output 1) is
\* forbidden
EncodesFunction(id) ==
    /\ \A c \in DOMAIN cls :
          /\ ~ cls[c].learned
          /\ ~ cls[c].removed
          /\ VarsOf(cls[c].lits) \subseteq VarsOf(cls[id].lits)
    /\ \A b \in Range(bins) : VarsOf(b) \subseteq VarsOf(cls[id].lits)
    /\ \A c \in DOMAIN cls :
          RowsOf(cls[c].lits, SeedVars(id)) \notin
              SUBSET ( UNION { RowsOf(cls[o].lits, SeedVars(id)) : o \in (DOMAIN cls) \ {c} }
                       \cup UNION { RowsOf(b, SeedVars(id)) : b \in Range(bins) } )
    /\ \A b \in Range(bins) :
          RowsOf(b, SeedVars(id)) \notin
              SUBSET ( UNION { RowsOf(cls[o].lits, SeedVars(id)) : o \in DOMAIN cls }
                       \cup UNION { RowsOf(o, SeedVars(id)) : o \in Range(bins) \ {b} } )
    /\ \A j \in 0 .. (Pow2(Len(cls[id].lits) - 1) - 1) :
          ((2 * j) \in DatabaseRows(SeedVars(id)))
              # ((2 * j + 1) \in DatabaseRows(SeedVars(id)))

\* C1: when the database encodes a function T of the variable at position 0
\* of the first seed, the callback is invoked for that seed with that variable
\* as output, the other seed variables in seed order as inputs, and a table
\* whose bit j is T(j) (T(j) = 1 exactly when the row 2j, output 0, is forbidden).
C1_ReportsFunction ==
    (pc = "done" /\ attempts # << >> /\ EncodesFunction(attempts[1].seed)) =>
        /\ m_on_lut # << >>
        /\ m_on_lut[1].seed = attempts[1].seed
        /\ m_on_lut[1].v = SeedVars(attempts[1].seed)[1]
        /\ m_on_lut[1].vars = Tail(SeedVars(attempts[1].seed))
        /\ m_on_lut[1].lut =
              { j \in 0 .. (Pow2(Len(m_on_lut[1].vars)) - 1) :
                  (2 * j) \in DatabaseRows(SeedVars(attempts[1].seed)) }

FullSize(rep) ==
    { rep.accepted[a].id :
        a \in { x \in 1 .. Len(rep.accepted) :
                  /\ rep.accepted[x].kind = "clause"
                  /\ Len(rep.accepted[x].lits) = Len(rep.cand) } }

C4_DeletedOnlyOnSuccess ==
    pc = "done" =>
        /\ Deleted = UNION { Range(a.gathered) : a \in { x \in Finished : x.outcome = "SUCCESS" } }
        /\ \A a \in Finished :
              a.outcome = "EXHAUSTED" =>
                  /\ Range(a.gathered) \cap Deleted = {}
                  /\ \A rep \in Reports : rep.seed # a.seed

C4_Witness ==
    /\ pc = "done"
    /\ \E a \in Finished :
          /\ a.outcome = "EXHAUSTED"
          /\ Len(a.gathered) >= 2
          /\ Range(a.gathered) \subseteq Range(clauses)

\* the fold of position 0, for any position i: bit j is set exactly when the
\* row with the variable at i equal to 0 and the other variables equal to j is
\* not in the word
GeneralFold(comb, i, k) ==
    { j \in 0 .. (Pow2(k - 1) - 1) : RowAt(j, i, 0) \notin comb }

\* C5: a LUT reported for an eliminated position i >= 1 carries the folded
\* table of position i, never the all-zero word of the unimplemented fold.
C5_FoldedTableReported ==
    \A rep \in Reports :
        rep.i >= 1 => rep.lut = GeneralFold(rep.comb, rep.i, Len(rep.cand))

\* C8: during a seed attempt, and at the moment a LUT is reported, the rows of
\* the combination word are exactly the rows falsifying some accepted
\* constraint (the seed, an accepted indexed clause, an accepted binary
\* clause), all completions of unmentioned positions included, and the row
\* count is the number of set bits.
C8_RowsWitnessed ==
    /\ pc = "match" =>
          /\ m_combination = RowsOfAll(accepted, m_vars)
          /\ m_num_combinations = Cardinality(m_combination)
    /\ \A rep \in Reports : rep.comb = RowsOfAll(rep.accepted, rep.cand)

C8_Witness ==
    /\ pc = "match"
    /\ \E a \in 2 .. Len(accepted) :
          accepted[a].kind = "clause" /\ Len(accepted[a].lits) < Len(m_vars)
    /\ m_num_combinations = 3

BinCount(b) ==
    Cardinality({ a \in 1 .. Len(accepted) :
                    accepted[a].kind = "binary" /\ Range(accepted[a].lits) = Range(b) })

\* C9: a binary clause over two variables of the seed is never accepted twice
\* in one attempt, and in an attempt that ran to exhaustion it was accepted
\* exactly once.
C9_BinaryOnce ==
    /\ pc = "match" => \A b \in Range(bins) : BinCount(b) <= 1
    /\ (pc \in {"outer", "done"} /\ attempts # << >> /\ Last(attempts).outcome = "EXHAUSTED") =>
          \A b \in Range(bins) : VarsOf(b) \subseteq visited => BinCount(b) = 1

C9_Witness ==
    /\ pc = "outer"
    /\ attempts # << >>
    /\ Last(attempts).outcome = "EXHAUSTED"
    /\ \E b \in Range(bins) : VarsOf(b) \subseteq visited /\ BinCount(b) = 1

\* C10: whenever a LUT is reported with output variable at position i, every
\* assignment of the other variables has at least one of its two rows
\* (output 0, output 1) in the combination word.
C10_OutputDetermined ==
    \A rep \in Reports : SomeRow(rep.comb, rep.i, Len(rep.cand))

====
